---- MODULE Spec2Model ----
(***************************************************************************)
(* Model of sccl.autosynth.init (src/sccl/autosynth/__init__.py): launch   *)
(* detection, machine classification, plan selection, the MPI gather /     *)
(* broadcast among the MPI processes, and the lock-file hand-over to the   *)
(* non-MPI subprocesses of one launcher.                                   *)
(***************************************************************************)
EXTENDS Integers, Sequences, FiniteSets, TLC

\* ------------------------------------------------------------------------
\* Bounds of the model
\* ------------------------------------------------------------------------
\* Poll intervals counted exactly; the counter saturates at this value.
MaxElapsed == 11

\* Processes of the job, and the launcher (parent pid) each one was forked by.
Procs == {1, 2, 3}
Parents == {1, 2}
getppid(p) == IF p = 3 THEN 2 ELSE 1

\* ------------------------------------------------------------------------
\* Python values
\* ------------------------------------------------------------------------
None == [some |-> FALSE]
Some(v) == [some |-> TRUE, val |-> v]

\* An exception: its message and the values the message names.
Exc(msg, args) == [msg |-> msg, args |-> args]
NoExc == Exc("", <<>>)

\* int(s) for the decimal strings the model uses; anything else is a ValueError.
IntOfStr == ("0" :> 0) @@ ("1" :> 1) @@ ("2" :> 2) @@ ("3" :> 3)
IsIntStr(s) == s \in DOMAIN IntOfStr
\* str(n)
str(n) == CHOOSE s \in DOMAIN IntOfStr : IntOfStr[s] = n

\* ','.join(parts)
RECURSIVE join(_)
join(parts) ==
    IF Len(parts) = 0 THEN <<>>
    ELSE IF Len(parts) = 1 THEN <<parts[1]>>
    ELSE <<parts[1], ",">> \o join(Tail(parts))

\* A variant of dict.update in which a key already in d1 keeps its value.
update_KeepExisting(d1, d2) ==
    [k \in (DOMAIN d1) \cup (DOMAIN d2) |-> IF k \in DOMAIN d1 THEN d1[k] ELSE d2[k]]

\* dict.update: keys of d2 overwrite, all other keys keep their value.
update(d1, d2) ==
    [k \in (DOMAIN d1) \cup (DOMAIN d2) |-> IF k \in DOMAIN d2 THEN d2[k] ELSE d1[k]]

\* ------------------------------------------------------------------------
\* Launch detection (init, lines 11-36)
\* ------------------------------------------------------------------------
\* argparse: parser.add_argument("--local_rank", type=int); parse_known_args()
\* returns the pair (namespace, remaining arguments); an option value that
\* int() rejects, or a missing value, ends the process with SystemExit(2).
RECURSIVE scan_local_rank(_)
scan_local_rank(args) ==
    IF Len(args) = 0 THEN [exit |-> FALSE, local_rank |-> None, extras |-> <<>>]
    ELSE IF args[1] = "--local_rank" THEN
        IF Len(args) < 2 \/ ~IsIntStr(args[2])
        THEN [exit |-> TRUE, local_rank |-> None, extras |-> <<>>]
        ELSE LET rest == scan_local_rank(SubSeq(args, 3, Len(args)))
             IN  [rest EXCEPT !.local_rank =
                      IF rest.local_rank.some THEN rest.local_rank
                      ELSE Some(IntOfStr[args[2]])]
    ELSE LET rest == scan_local_rank(Tail(args))
         IN  [rest EXCEPT !.extras = <<args[1]>> \o rest.extras]

parse_known_args(args) ==
    LET r == scan_local_rank(args)
    IN  IF r.exit THEN [type |-> "SystemExit"]
        ELSE [type |-> "tuple",
              items |-> <<[type |-> "Namespace", local_rank |-> r.local_rank], r.extras>>]

\* obj.name succeeds only on an object that has the attribute.
hasattr(obj, name) == obj.type = "Namespace" /\ name \in DOMAIN obj

Raised(e) == [raised |-> e, has_subprocesses |-> FALSE, world_size |-> None,
              is_mpi_process |-> FALSE]
Context(hs, ws, mpi) == [raised |-> "", has_subprocesses |-> hs, world_size |-> ws,
                         is_mpi_process |-> mpi]

\* int(os.environ['WORLD_SIZE'])
world_size_env(environ) ==
    IF "WORLD_SIZE" \notin DOMAIN environ THEN Raised("KeyError")
    ELSE IF ~IsIntStr(environ["WORLD_SIZE"]) THEN Raised("ValueError")
    ELSE Context(TRUE, Some(IntOfStr[environ["WORLD_SIZE"]]), FALSE)

detect_launch(environ, args) ==
    IF "LOCAL_RANK" \in DOMAIN environ THEN
        LET w == world_size_env(environ)
        IN  IF w.raised # "" THEN w
            ELSE IF ~IsIntStr(environ["LOCAL_RANK"]) THEN Raised("ValueError")
            ELSE Context(TRUE, w.world_size, IntOfStr[environ["LOCAL_RANK"]] = 0)
    ELSE
        LET parsed == parse_known_args(args)
        IN  IF parsed.type = "SystemExit" THEN Raised("SystemExit")
            ELSE IF ~hasattr(parsed, "local_rank") THEN Raised("AttributeError")
            ELSE IF parsed.local_rank.some THEN
                LET w == world_size_env(environ)
                IN  IF w.raised # "" THEN w
                    ELSE Context(TRUE, w.world_size, parsed.local_rank.val = 0)
            ELSE Context(FALSE, None, TRUE)

\* ------------------------------------------------------------------------
\* Machine detection (lines 120-155) and plan selection (lines 157-162)
\* ------------------------------------------------------------------------
\* The output of `nvidia-smi topo -m` is a sequence of lines and every line a
\* sequence of whitespace-separated fields.  A GPU row starts with "GPU", a
\* NIC row with a name of the form mlx<d>_<d>, written "mlx" here.  Every line
\* ends in the whitespace nvidia-smi prints after the last column, which the
\* final \s+ of the host pattern asks for.
GpuRow == <<"GPU", "X">>
GpuRows(n) == [i \in 1..n |-> GpuRow]

\* nvlink_only(smi_topo): the NVLink graph of the report; it has one node per
\* GPU row, and keeps the wiring the report describes.
nvlink_only(smi_topo) ==
    [num_nodes |-> Cardinality({i \in 1..Len(smi_topo.text) : smi_topo.text[i][1] = "GPU"}),
     wiring |-> smi_topo.wiring]

\* (?:\s+NODE)* : the index after the longest run of NODE fields from index i.
RECURSIVE skip_NODE(_, _)
skip_NODE(line, i) ==
    IF i <= Len(line) /\ line[i] = "NODE" THEN skip_NODE(line, i + 1) ELSE i

\* ^mlx\d_\d(?:\s+NODE)*\s+X(?:\s+NODE)*\s+$
match_ib_host(line) ==
    /\ Len(line) >= 1
    /\ line[1] = "mlx"
    /\ LET x == skip_NODE(line, 2)
       IN  /\ x <= Len(line)
           /\ line[x] = "X"
           /\ skip_NODE(line, x + 1) = Len(line) + 1

\* ^mlx\d_\d.*$
match_ib_any(line) == Len(line) >= 1 /\ line[1] = "mlx"

\* re.findall(pattern, smi_topo, re.MULTILINE): the matching lines, in order.
findall_ib_host(text) == SelectSeq(text, match_ib_host)
findall_ib_any(text) == SelectSeq(text, match_ib_any)

\* A variant that counts the host-local lines only.
_is_one_host_ib_dgx1_HostOnly(text) ==
    LET ib_host == findall_ib_host(text)
    IN  Len(ib_host) = 1

_is_one_host_ib_dgx1(text) ==
    LET ib_host == findall_ib_host(text)
        ib_any == findall_ib_any(text)
    IN  Len(ib_host) = 1 /\ Len(ib_any) = 1

Unknown == <<"unknown", None>>

\* Returns [ret |-> None] when nvidia-smi is not installed.
_detect_nvidia_machine(smi_topo) ==
    IF smi_topo.status = "FileNotFoundError" THEN [ret |-> None]
    ELSE IF smi_topo.status = "CalledProcessError" THEN [ret |-> Some(Unknown)]
    ELSE LET nvlink_topo == nvlink_only(smi_topo)
         IN  IF nvlink_topo.num_nodes = 8 /\ _is_one_host_ib_dgx1(smi_topo.text)
             THEN [ret |-> Some(<<"one_host_ib_dgx1", Some(nvlink_topo)>>)]
             ELSE [ret |-> Some(Unknown)]

detect_machine(smi_topo) ==
    LET machine == _detect_nvidia_machine(smi_topo)
    IN  IF machine.ret.some THEN machine.ret.val ELSE Unknown

\* A variant that falls back to a generic plan for an unregistered machine.
select_synthesis_plan_Fallback(machine) ==
    [raised |-> "",
     plan |-> [type |-> "DGX1RelayNodePlan",
               local_topo |-> IF machine[2].some THEN machine[2]
                              ELSE Some([num_nodes |-> 8, wiring |-> "a"])]]

\* The plan, or the RuntimeError 'Unhandled machine type'.
select_synthesis_plan(machine) ==
    IF machine[1] = "one_host_ib_dgx1"
    THEN [raised |-> "", plan |-> [type |-> "DGX1RelayNodePlan", local_topo |-> machine[2]]]
    ELSE [raised |-> "Unhandled machine type", plan |-> None]

\* DGX1RelayNodePlan.local_rank_permutation(): the order of the local devices,
\* a function of the topology the plan was built with.
local_rank_permutation(plan) ==
    IF plan.local_topo.val.wiring = "a" THEN <<0, 1>> ELSE <<1, 0>>

\* ncclize(plan.synthesize(world_size, name)): the lowered algorithm, a
\* function of the plan and of the arguments.
synthesize(plan, world_size, name) ==
    [collective |-> name, world_size |-> world_size, topo |-> plan.local_topo.val.wiring]

\* ------------------------------------------------------------------------
\* Files
\* ------------------------------------------------------------------------
\* json.dump(env, f): the keys in insertion order, each with its value;
\* json.load(f): the dict of a non-empty document, JSONDecodeError otherwise.
KeyOrder == <<"SCCL_XML_FILE", "CUDA_VISIBLE_DEVICES">>
json_dump(d) ==
    LET keys == SelectSeq(KeyOrder, LAMBDA k : k \in DOMAIN d)
    IN  [i \in 1..Len(keys) |-> <<keys[i], d[keys[i]]>>]
json_load(text) ==
    IF Len(text) = 0 THEN [raised |-> "JSONDecodeError", doc |-> <<>>]
    ELSE [raised |-> "",
          doc |-> [k \in {text[i][1] : i \in 1..Len(text)} |->
                      (CHOOSE pair \in {text[i] : i \in 1..Len(text)} : pair[1] = k)[2]]]

\* The bundle a crashed earlier run left in its lock file.
StaleText == json_dump([SCCL_XML_FILE |-> <<0, "Alltoall.xml">>,
                        CUDA_VISIBLE_DEVICES |-> join(<<"0", "1">>)])

\* ------------------------------------------------------------------------
\* State
\* ------------------------------------------------------------------------
VARIABLES
    environ,        \* os.environ of every process
    argv,           \* sys.argv[1:] of every process
    pc,             \* where every process is in init
    raised,         \* the exception that ended init, "" if none
    launch,         \* has_subprocesses, world_size, is_mpi_process
    machine,        \* the result of detect_machine
    plan,           \* the result of select_synthesis_plan
    tool,           \* how the nvidia-smi call of the process ended
    names,          \* comm.gather: the names received by the root so far
    efs,            \* the local variable efs
    bcast,          \* comm.bcast: the value the root has sent
    tempdirs,       \* the directories tempfile.mkdtemp created
    ef_files,       \* the contents of the files written into them
    env,            \* the local variable env
    lock,           \* env_file of every launcher: its inode, 0 if absent
    inodes,         \* the contents of every lock file ever created
    fd,             \* the inode the process has opened
    atexit,         \* whether os.remove(env_file) is registered
    elapsed,        \* the poll counter of a subprocess
    warnings,       \* how often 'Still waiting' was printed
    existed,        \* os.path.exists(env_file) when init was entered
    synth_calls,    \* how often the process called plan.synthesize
    report,       \* a report handed to detect_machine on its own
    detected        \* what detect_machine and select_synthesis_plan made of it

vars == <<environ, argv, pc, raised, launch, machine, plan, tool, names, efs, bcast,
          tempdirs, ef_files, env, lock, inodes, fd, atexit, elapsed, warnings,
          existed, synth_calls, report, detected>>

mpiVars == <<machine, plan, tool, names, efs, bcast, synth_calls>>
fileVars == <<lock, inodes, fd, atexit>>
pollVars == <<elapsed, warnings>>
dirVars == <<tempdirs, ef_files>>
reportVars == <<report, detected>>

\* The launch shapes of a process: torch.distributed.run sets LOCAL_RANK and
\* WORLD_SIZE; the legacy launcher passes --local_rank N; mpirun sets neither.
Preset == [CUDA_VISIBLE_DEVICES |-> <<"7">>, PATH |-> <<"/bin">>]
Launches == {
    [environ |-> update(Preset, [LOCAL_RANK |-> "0", WORLD_SIZE |-> "2"]), argv |-> <<>>],
    [environ |-> update(Preset, [LOCAL_RANK |-> "1", WORLD_SIZE |-> "2"]), argv |-> <<>>],
    [environ |-> update(Preset, [WORLD_SIZE |-> "2"]), argv |-> <<"--local_rank", "0">>],
    [environ |-> update(Preset, [WORLD_SIZE |-> "2"]), argv |-> <<"train.py", "--local_rank", "1">>],
    [environ |-> Preset, argv |-> <<>>],
    [environ |-> Preset, argv |-> <<"--local_rank", "abc">>] }

\* The nvidia-smi outcomes a process can meet.
Reports == {
    [status |-> "FileNotFoundError", text |-> <<>>, wiring |-> "a"],
    [status |-> "CalledProcessError", text |-> <<>>, wiring |-> "a"],
    [status |-> "ok", text |-> GpuRows(8) \o <<<<"mlx", "NODE", "X", "NODE">>>>, wiring |-> "a"],
    [status |-> "ok", text |-> GpuRows(8) \o <<<<"mlx", "X">>>>, wiring |-> "b"],
    [status |-> "ok", text |-> GpuRows(8) \o <<<<"mlx", "X">>, <<"mlx", "PIX", "X">>>>, wiring |-> "a"],
    [status |-> "ok", text |-> GpuRows(4) \o <<<<"mlx", "X">>>>, wiring |-> "a"] }

\* ------------------------------------------------------------------------
\* The MPI world (lines 76-78)
\* ------------------------------------------------------------------------
\* COMM_WORLD holds the processes the job runs as MPI ranks: all of them
\* under mpirun, the local rank 0 of every launcher otherwise.
local_rank_of(p) ==
    IF "LOCAL_RANK" \in DOMAIN environ[p] THEN Some(environ[p]["LOCAL_RANK"])
    ELSE LET r == scan_local_rank(argv[p])
         IN  IF r.local_rank.some THEN Some(str(r.local_rank.val)) ELSE None
COMM_WORLD == {p \in Procs : local_rank_of(p).some => local_rank_of(p).val = "0"}
Get_size == Cardinality(COMM_WORLD)
Get_rank(p) == Cardinality({q \in COMM_WORLD : q < p})
ProcOfRank(r) == CHOOSE p \in COMM_WORLD : Get_rank(p) = r

\* os.path.join(tempfile.gettempdir(), f'sccl_autosynth_env.{os.getppid()}.lock')
env_file(p) == getppid(p)
exists(path) == lock[path] # 0

InitJob(l, stale) ==
    /\ environ = [p \in Procs |-> l[p].environ]
    /\ argv = [p \in Procs |-> l[p].argv]
    /\ pc = [p \in Procs |-> "init"]
    /\ raised = [p \in Procs |-> NoExc]
    /\ launch = [p \in Procs |-> Context(FALSE, None, FALSE)]
    /\ machine = [p \in Procs |-> Unknown]
    /\ plan = [p \in Procs |-> None]
    /\ tool = [p \in Procs |-> ""]
    /\ names = [p \in Procs |-> None]
    /\ efs = [p \in Procs |-> None]
    /\ bcast = None
    /\ tempdirs = {0}
    /\ ef_files = <<>>
    /\ env = [p \in Procs |-> None]
    /\ lock = [k \in Parents |-> IF k \in stale THEN k ELSE 0]
    /\ inodes = [k \in Parents |-> [text |-> StaleText, writer |-> 0]]
    /\ fd = [p \in Procs |-> 0]
    /\ atexit = [p \in Procs |-> FALSE]
    /\ elapsed = [p \in Procs |-> 0]
    /\ warnings = [p \in Procs |-> 0]
    /\ existed = [p \in Procs |-> FALSE]
    /\ synth_calls = [p \in Procs |-> 0]

\* Every process starts init in one of the launch shapes; a lock file of an
\* earlier run that skipped its cleanup may be there.
Init ==
    /\ \E l \in [Procs -> Launches] : \E stale \in SUBSET Parents : InitJob(l, stale)
    /\ report = CHOOSE r \in Reports : r.status = "FileNotFoundError"
    /\ detected = [stage |-> 0]

\* An uncaught exception ends init (and the process).
Raise(p, msg, args) ==
    /\ pc' = [pc EXCEPT ![p] = "raised"]
    /\ raised' = [raised EXCEPT ![p] = Exc(msg, args)]
Goto(p, label) ==
    /\ pc' = [pc EXCEPT ![p] = label]
    /\ UNCHANGED raised

\* A variant that registers the removal of the lock file on entry to init.
Detect_RegistersCleanup(p) ==
    /\ pc[p] = "init"
    /\ LET c == detect_launch(environ[p], argv[p])
       IN  /\ launch' = [launch EXCEPT ![p] = c]
           /\ IF c.raised # "" THEN Raise(p, c.raised, <<>>)
              ELSE IF c.is_mpi_process THEN Goto(p, "detect_machine")
              ELSE Goto(p, "poll")
    /\ atexit' = [atexit EXCEPT ![p] = TRUE]
    /\ existed' = [existed EXCEPT ![p] = exists(env_file(p))]
    /\ UNCHANGED <<environ, argv, mpiVars, dirVars, env, lock, inodes, fd, pollVars, reportVars>>

\* ------------------------------------------------------------------------
\* init, lines 11-38: detect how the process was launched
\* ------------------------------------------------------------------------
Detect(p) ==
    /\ pc[p] = "init"
    /\ LET c == detect_launch(environ[p], argv[p])
       IN  /\ launch' = [launch EXCEPT ![p] = c]
           /\ IF c.raised # "" THEN Raise(p, c.raised, <<>>)
              ELSE IF c.is_mpi_process THEN Goto(p, "detect_machine")
              ELSE Goto(p, "poll")
    /\ existed' = [existed EXCEPT ![p] = exists(env_file(p))]
    /\ UNCHANGED <<environ, argv, mpiVars, dirVars, env, fileVars, pollVars, reportVars>>

\* ------------------------------------------------------------------------
\* _autosynth_and_get_env, lines 85-86
\* ------------------------------------------------------------------------
DetectMachine(p) ==
    /\ pc[p] = "detect_machine"
    /\ \E smi_topo \in Reports :
          LET m == detect_machine(smi_topo)
              s == select_synthesis_plan(m)
          IN  /\ machine' = [machine EXCEPT ![p] = m]
              /\ tool' = [tool EXCEPT ![p] = smi_topo.status]
              /\ plan' = [plan EXCEPT ![p] = s.plan]
              /\ IF s.raised # "" THEN Raise(p, s.raised, <<m[1]>>)
                 ELSE Goto(p, "gather")
    /\ UNCHANGED <<environ, argv, launch, names, efs, bcast, synth_calls, dirVars, env,
                   fileVars, pollVars, existed, reportVars>>

\* ------------------------------------------------------------------------
\* line 87: names = comm.gather(machine[0], root=0).  A rank other than the
\* root sends its name and goes on; the root returns once every rank has sent.
\* ------------------------------------------------------------------------
\* A variant in which the root does not wait for the other ranks.
Gather_NoWait(p) ==
    /\ pc[p] = "gather"
    /\ names' = [names EXCEPT ![p] = Some(machine[p][1])]
    /\ IF Get_rank(p) = 0 THEN Goto(p, "check") ELSE Goto(p, "bcast")
    /\ UNCHANGED <<environ, argv, launch, machine, plan, tool, efs, bcast, synth_calls,
                   dirVars, env, fileVars, pollVars, existed, reportVars>>

\* A variant in which a process that has subprocesses skips the gather.
Gather_BareOnly(p) ==
    /\ pc[p] = "gather"
    /\ IF launch[p].has_subprocesses
       THEN /\ UNCHANGED names
            /\ IF Get_rank(p) = 0 THEN Goto(p, "check") ELSE Goto(p, "bcast")
       ELSE /\ names' = [names EXCEPT ![p] = Some(machine[p][1])]
            /\ IF Get_rank(p) = 0 THEN Goto(p, "check") ELSE Goto(p, "bcast")
    /\ UNCHANGED <<environ, argv, launch, machine, plan, tool, efs, bcast, synth_calls,
                   dirVars, env, fileVars, pollVars, existed, reportVars>>

Gather(p) ==
    /\ pc[p] = "gather"
    /\ IF Get_rank(p) = 0
       THEN /\ \A q \in COMM_WORLD \ {p} : names[q].some
            /\ names' = [names EXCEPT ![p] = Some(machine[p][1])]
            /\ Goto(p, "check")
       ELSE /\ names' = [names EXCEPT ![p] = Some(machine[p][1])]
            /\ Goto(p, "bcast")
    /\ UNCHANGED <<environ, argv, launch, machine, plan, tool, efs, bcast, synth_calls,
                   dirVars, env, fileVars, pollVars, existed, reportVars>>

\* The list the root received, by rank.
gathered == [i \in 1..Get_size |-> names[ProcOfRank(i - 1)].val]

\* lines 89-91: the first i in range(len(names) - 1) with names[i] != names[i+1]
mismatches(ns) == {i \in 0..(Len(ns) - 2) : ns[i + 1] # ns[i + 2]}
first_mismatch(ns) == CHOOSE i \in mismatches(ns) : \A j \in mismatches(ns) : i <= j

\* lines 76-81: world_size defaults to the size of COMM_WORLD
resolved_world_size(p) ==
    IF launch[p].world_size.some THEN launch[p].world_size.val ELSE Get_size

\* lines 88-95, on the root: compare the names, then synthesize
Check(p) ==
    /\ pc[p] = "check"
    /\ IF mismatches(gathered) # {}
       THEN LET i == first_mismatch(gathered)
            IN  /\ Raise(p, "detected machine as", <<i, gathered[i + 1], i + 1, gathered[i + 2]>>)
                /\ UNCHANGED <<efs, synth_calls>>
       ELSE /\ efs' = [efs EXCEPT ![p] =
                         Some(<<synthesize(plan[p], resolved_world_size(p), "Alltoall")>>)]
            /\ synth_calls' = [synth_calls EXCEPT ![p] = @ + 1]
            /\ Goto(p, "bcast")
    /\ UNCHANGED <<environ, argv, launch, machine, plan, tool, names, bcast, dirVars, env,
                   fileVars, pollVars, existed, reportVars>>

\* A variant in which a rank other than the root does not block.
Bcast_NoWait(p) ==
    /\ pc[p] = "bcast"
    /\ IF Get_rank(p) = 0
       THEN /\ bcast' = efs[p]
            /\ UNCHANGED efs
       ELSE /\ efs' = [efs EXCEPT ![p] = bcast]
            /\ UNCHANGED bcast
    /\ Goto(p, "write_ef")
    /\ UNCHANGED <<environ, argv, launch, machine, plan, tool, names, synth_calls, dirVars,
                   env, fileVars, pollVars, existed, reportVars>>

\* lines 96-98: efs = comm.bcast(efs, root=0)
Bcast(p) ==
    /\ pc[p] = "bcast"
    /\ IF Get_rank(p) = 0
       THEN /\ bcast' = efs[p]
            /\ UNCHANGED efs
       ELSE /\ bcast.some
            /\ efs' = [efs EXCEPT ![p] = bcast]
            /\ UNCHANGED bcast
    /\ Goto(p, "write_ef")
    /\ UNCHANGED <<environ, argv, launch, machine, plan, tool, names, synth_calls, dirVars,
                   env, fileVars, pollVars, existed, reportVars>>

\* A variant that writes into one shared directory instead of a fresh one.
WriteEf_SharedDir(p) ==
    /\ pc[p] = "write_ef"
    /\ LET tempdir == 1
           ef_file == <<tempdir, "Alltoall.xml">>
           perm == local_rank_permutation(plan[p])
       IN  /\ tempdirs' = tempdirs \cup {tempdir}
           /\ ef_files' = (tempdir :> efs[p].val[1]) @@ ef_files
           /\ env' = [env EXCEPT ![p] =
                        [SCCL_XML_FILE |-> ef_file,
                         CUDA_VISIBLE_DEVICES |->
                             join([i \in 1..Len(perm) |-> str(perm[i])])]]
    /\ IF launch[p].has_subprocesses THEN Goto(p, "exists") ELSE Goto(p, "update")
    /\ UNCHANGED <<environ, argv, launch, mpiVars, fileVars, pollVars, existed, reportVars>>

\* lines 100-118 and 41-43: write the algorithm into a fresh directory and
\* return the environment
DirIds == 1..Cardinality(Procs)
WriteEf(p) ==
    /\ pc[p] = "write_ef"
    /\ \E tempdir \in DirIds \ tempdirs :
          LET ef_file == <<tempdir, "Alltoall.xml">>
              perm == local_rank_permutation(plan[p])
          IN  /\ tempdirs' = tempdirs \cup {tempdir}
              /\ ef_files' = (tempdir :> efs[p].val[1]) @@ ef_files
              /\ env' = [env EXCEPT ![p] =
                           [SCCL_XML_FILE |-> ef_file,
                            CUDA_VISIBLE_DEVICES |->
                                join([i \in 1..Len(perm) |-> str(perm[i])])]]
    /\ IF launch[p].has_subprocesses THEN Goto(p, "exists") ELSE Goto(p, "update")
    /\ UNCHANGED <<environ, argv, launch, mpiVars, fileVars, pollVars, existed, reportVars>>

\* ------------------------------------------------------------------------
\* init, lines 43-51: the MPI process hands env to the subprocesses
\* ------------------------------------------------------------------------
\* A variant that registers the removal before the test of lines 45-46.
ExistsCheck_RegistersFirst(p) ==
    /\ pc[p] = "exists"
    /\ atexit' = [atexit EXCEPT ![p] = TRUE]
    /\ IF exists(env_file(p))
       THEN Raise(p, "Lock file already exists", <<env_file(p)>>)
       ELSE Goto(p, "open_w")
    /\ UNCHANGED <<environ, argv, launch, mpiVars, dirVars, env, lock, inodes, fd, pollVars,
                   existed, reportVars>>

\* A variant that skips the test of lines 45-46.
ExistsCheck_NoTest(p) ==
    /\ pc[p] = "exists"
    /\ Goto(p, "open_w")
    /\ UNCHANGED <<environ, argv, launch, mpiVars, dirVars, env, fileVars, pollVars, existed,
                   reportVars>>

\* lines 45-46
ExistsCheck(p) ==
    /\ pc[p] = "exists"
    /\ IF exists(env_file(p))
       THEN Raise(p, "Lock file already exists", <<env_file(p)>>)
       ELSE Goto(p, "open_w")
    /\ UNCHANGED <<environ, argv, launch, mpiVars, dirVars, env, fileVars, pollVars, existed, reportVars>>

\* line 48: open(env_file, "w") creates the file, or empties the one there
OpenW(p) ==
    /\ pc[p] = "open_w"
    /\ IF exists(env_file(p))
       THEN /\ inodes' = [inodes EXCEPT ![lock[env_file(p)]].text = <<>>]
            /\ fd' = [fd EXCEPT ![p] = lock[env_file(p)]]
            /\ UNCHANGED lock
       ELSE /\ inodes' = Append(inodes, [text |-> <<>>, writer |-> 0])
            /\ lock' = [lock EXCEPT ![env_file(p)] = Len(inodes) + 1]
            /\ fd' = [fd EXCEPT ![p] = Len(inodes) + 1]
    /\ Goto(p, "dump")
    /\ UNCHANGED <<environ, argv, launch, mpiVars, dirVars, env, atexit, pollVars, existed, reportVars>>

\* line 49 and the end of the with block: the document reaches the file that
\* was opened, whether or not env_file still names it
Dump(p) ==
    /\ pc[p] = "dump"
    /\ inodes' = [inodes EXCEPT ![fd[p]] = [text |-> json_dump(env[p]), writer |-> p]]
    /\ fd' = [fd EXCEPT ![p] = 0]
    /\ Goto(p, "register")
    /\ UNCHANGED <<environ, argv, launch, mpiVars, dirVars, env, lock, atexit, pollVars,
                   existed, reportVars>>

\* line 51: atexit.register(os.remove, env_file)
Register(p) ==
    /\ pc[p] = "register"
    /\ atexit' = [atexit EXCEPT ![p] = TRUE]
    /\ Goto(p, "update")
    /\ UNCHANGED <<environ, argv, launch, mpiVars, dirVars, env, lock, inodes, fd, pollVars,
                   existed, reportVars>>

\* ------------------------------------------------------------------------
\* init, lines 53-63: a subprocess waits for the file and loads it
\* ------------------------------------------------------------------------
\* The threshold of the 'Still waiting' message (line 59).
WarnAfter == 10

\* A variant of the loop of lines 56-60 that gives up at the threshold.
Poll_Timeout(p) ==
    /\ pc[p] = "poll"
    /\ IF exists(env_file(p))
       THEN /\ Goto(p, "open_r")
            /\ UNCHANGED pollVars
       ELSE /\ elapsed' = [elapsed EXCEPT ![p] = IF @ < MaxElapsed THEN @ + 1 ELSE @]
            /\ UNCHANGED warnings
            /\ IF elapsed[p] + 1 = WarnAfter
               THEN Raise(p, "TimeoutError", <<>>)
               ELSE UNCHANGED <<pc, raised>>
    /\ UNCHANGED <<environ, argv, launch, mpiVars, dirVars, env, fileVars, existed, reportVars>>

\* lines 56-60: one test of the loop condition and, if the file is not
\* there, one pass through the body
Poll(p) ==
    /\ pc[p] = "poll"
    /\ IF exists(env_file(p))
       THEN /\ Goto(p, "open_r")
            /\ UNCHANGED pollVars
       ELSE /\ elapsed' = [elapsed EXCEPT ![p] = IF @ < MaxElapsed THEN @ + 1 ELSE @]
            /\ warnings' = [warnings EXCEPT ![p] =
                              IF elapsed[p] < MaxElapsed /\ elapsed[p] + 1 = WarnAfter
                              THEN @ + 1 ELSE @]
            /\ UNCHANGED <<pc, raised>>
    /\ UNCHANGED <<environ, argv, launch, mpiVars, dirVars, env, fileVars, existed, reportVars>>

\* line 62: open(env_file, "r")
OpenR(p) ==
    /\ pc[p] = "open_r"
    /\ IF exists(env_file(p))
       THEN /\ fd' = [fd EXCEPT ![p] = lock[env_file(p)]]
            /\ Goto(p, "load")
       ELSE /\ Raise(p, "FileNotFoundError", <<env_file(p)>>)
            /\ UNCHANGED fd
    /\ UNCHANGED <<environ, argv, launch, mpiVars, dirVars, env, lock, inodes, atexit,
                   pollVars, existed, reportVars>>

\* line 63: env = json.load(f)
Load(p) ==
    /\ pc[p] = "load"
    /\ LET r == json_load(inodes[fd[p]].text)
       IN  IF r.raised # ""
           THEN /\ Raise(p, r.raised, <<>>)
                /\ UNCHANGED env
           ELSE /\ env' = [env EXCEPT ![p] = r.doc]
                /\ Goto(p, "update")
    /\ fd' = [fd EXCEPT ![p] = 0]
    /\ UNCHANGED <<environ, argv, launch, mpiVars, dirVars, lock, inodes, atexit, pollVars,
                   existed, reportVars>>

\* ------------------------------------------------------------------------
\* init, line 65, and the end of the process
\* ------------------------------------------------------------------------
Update(p) ==
    /\ pc[p] = "update"
    /\ environ' = [environ EXCEPT ![p] = update(@, env[p])]
    /\ Goto(p, "done")
    /\ UNCHANGED <<argv, launch, mpiVars, dirVars, env, fileVars, pollVars, existed, reportVars>>

\* A variant whose exit leaves the lock file in place.
Exit_KeepsFile(p) ==
    /\ pc[p] = "done"
    /\ Goto(p, "exited")
    /\ UNCHANGED <<environ, argv, launch, mpiVars, dirVars, env, fileVars, pollVars, existed,
                   reportVars>>

\* The process exits normally after init returned: the registered
\* os.remove(env_file) runs; on a missing file it raises, which atexit reports
\* and ignores.
Exit(p) ==
    /\ pc[p] = "done"
    /\ lock' = IF atexit[p] THEN [lock EXCEPT ![env_file(p)] = 0] ELSE lock
    /\ Goto(p, "exited")
    /\ UNCHANGED <<environ, argv, launch, mpiVars, dirVars, env, inodes, fd, atexit,
                   pollVars, existed, reportVars>>

Next ==
    \E p \in Procs :
        \/ Detect(p)
        \/ DetectMachine(p)
        \/ Gather(p)
        \/ Check(p)
        \/ Bcast(p)
        \/ WriteEf(p)
        \/ ExistsCheck(p)
        \/ OpenW(p)
        \/ Dump(p)
        \/ Register(p)
        \/ Poll(p)
        \/ OpenR(p)
        \/ Load(p)
        \/ Update(p)
        \/ Exit(p)

Spec == Init /\ [][Next]_vars

TypeOK ==
    /\ pc \in [Procs -> {"init", "detect_machine", "gather", "check", "bcast", "write_ef",
                         "exists", "open_w", "dump", "register", "poll", "open_r", "load",
                         "update", "done", "exited", "raised"}]
    /\ \A p \in Procs : elapsed[p] \in 0..MaxElapsed

\* ------------------------------------------------------------------------
\* detect_machine and select_synthesis_plan on their own (lines 120-162)
\* ------------------------------------------------------------------------
\* The NIC and other rows a report may hold besides its GPU rows.
MaxIbLines == 2
OtherRows == {<<"mlx", "X">>, <<"mlx", "NODE", "X", "NODE">>, <<"mlx", "PIX", "X">>,
              <<"mlx", "NODE", "SYS">>, <<"Legend:">>}
AllReports ==
    {[status |-> "FileNotFoundError", text |-> <<>>, wiring |-> "a"],
     [status |-> "CalledProcessError", text |-> <<>>, wiring |-> "a"]}
    \cup {[status |-> "ok", text |-> GpuRows(n) \o rows, wiring |-> "a"] :
            n \in {4, 7, 8, 9},
            rows \in UNION {[1..k -> OtherRows] : k \in 0..MaxIbLines}}

InitReport ==
    /\ InitJob([p \in Procs |-> CHOOSE l \in Launches : "LOCAL_RANK" \in DOMAIN l.environ], {})
    /\ report \in AllReports
    /\ detected = [stage |-> 0]

\* machine = detect_machine(logging)
Classify ==
    /\ detected.stage = 0
    /\ detected' = [stage |-> 1, machine |-> detect_machine(report)]
    /\ UNCHANGED <<environ, argv, pc, raised, launch, mpiVars, dirVars, env, fileVars,
                   pollVars, existed, report>>

\* plan = select_synthesis_plan(machine)
Select ==
    /\ detected.stage = 1
    /\ detected' = [stage |-> 2, machine |-> detected.machine,
                    selected |-> select_synthesis_plan(detected.machine)]
    /\ UNCHANGED <<environ, argv, pc, raised, launch, mpiVars, dirVars, env, fileVars,
                   pollVars, existed, report>>

NextReport == Classify \/ Select

SpecReport == InitReport /\ [][NextReport]_vars

\* The scheduler lets every process that can take a step of init take it;
\* when a process exits is up to the program that called init.
InitStep(p) ==
    \/ Detect(p) \/ DetectMachine(p) \/ Gather(p) \/ Check(p) \/ Bcast(p) \/ WriteEf(p)
    \/ ExistsCheck(p) \/ OpenW(p) \/ Dump(p) \/ Register(p)
    \/ Poll(p) \/ OpenR(p) \/ Load(p) \/ Update(p)
FairSpec == Spec /\ \A p \in Procs : WF_vars(InitStep(p))

\* One launcher with a coordinator (process 1) and a subprocess (process 2);
\* process 3 is a legacy-launched process of another launcher.  No lock file
\* is left from an earlier run.
LaunchOf(local_rank) == CHOOSE l \in Launches :
    "LOCAL_RANK" \in DOMAIN l.environ /\ l.environ["LOCAL_RANK"] = local_rank
LegacyLaunch == CHOOSE l \in Launches :
    scan_local_rank(l.argv).local_rank.some /\ scan_local_rank(l.argv).local_rank.val # 0
InitGroup ==
    /\ InitJob([p \in Procs |-> IF p = 1 THEN LaunchOf("0")
                                ELSE IF p = 2 THEN LaunchOf("1") ELSE LegacyLaunch], {})
    /\ report = CHOOSE r \in Reports : r.status = "FileNotFoundError"
    /\ detected = [stage |-> 0]
FairGroupSpec == InitGroup /\ [][Next]_vars /\ \A p \in Procs : WF_vars(InitStep(p))

\* ------------------------------------------------------------------------
\* Roles and stages
\* ------------------------------------------------------------------------
Started(p) == pc[p] # "init" /\ launch[p].raised = ""
\* the MPI process of a launcher that has subprocesses
Coordinator(p) == Started(p) /\ launch[p].is_mpi_process /\ launch[p].has_subprocesses
\* a subprocess that waits for the lock file
Sibling(p) == Started(p) /\ ~launch[p].is_mpi_process
SameGroup(p, q) == getppid(p) = getppid(q)
\* the coordinator has written its bundle into the lock file
Published(p) == Coordinator(p) /\ pc[p] \in {"register", "update", "done", "exited"}
\* the subprocess has parsed a bundle from the lock file
Parsed(p) == Sibling(p) /\ pc[p] \in {"update", "done", "exited"}
\* init returned: the bundle is in os.environ
Installed(p) == pc[p] \in {"done", "exited"}
BundleKeys == {"SCCL_XML_FILE", "CUDA_VISIBLE_DEVICES"}
SameValues(p, q) == \A k \in BundleKeys : environ[p][k] = environ[q][k]

\* ------------------------------------------------------------------------
\* C1: in a group with subprocesses, the bundle a subprocess parses from the
\* lock file is the bundle the coordinator of its group produced and
\* published in this run, and when both have finished init their
\* SCCL_XML_FILE and CUDA_VISIBLE_DEVICES values are equal.
\* ------------------------------------------------------------------------
C1_SiblingReadsCoordinatorBundle ==
    \A s \in Procs : \A c \in Procs :
        (SameGroup(c, s) /\ Sibling(s) /\ Coordinator(c)) =>
            /\ raised[s].msg # "JSONDecodeError"
            /\ Parsed(s) => (Published(c) /\ env[s] = env[c])
            /\ (Installed(s) /\ Installed(c)) => SameValues(s, c)

\* ------------------------------------------------------------------------
\* C2: once the coordinator of a group has published the lock file, every
\* subprocess of the group that runs init eventually completes init with the
\* bundle installed, whenever it starts polling.
\* ------------------------------------------------------------------------
C2_SiblingEventuallyInstalls ==
    \A c \in Procs : \A s \in Procs :
        (SameGroup(c, s) /\ Published(c) /\ Sibling(s)) ~> Installed(s)

\* ------------------------------------------------------------------------
\* C3 as claimed: a coordinator that found the lock file present when it
\* entered init ends in 'Lock file already exists' and never opens or writes
\* the file, never registers the cleanup, never merges a bundle.
\* ------------------------------------------------------------------------
C3_LockAtStartIsFatal ==
    \A c \in Procs :
        (Coordinator(c) /\ existed[c]) =>
            /\ pc[c] \notin {"open_w", "dump", "register", "update", "done", "exited"}
            /\ ~atexit[c]
            /\ pc[c] = "raised" => raised[c].msg = "Lock file already exists"

\* C3 as amended: a coordinator that finds the lock file present at its
\* existence test (line 45, after _autosynth_and_get_env returned) ends in
\* 'Lock file already exists'; a coordinator that ended so has written no lock
\* file, holds no open file, has registered no cleanup and has merged nothing.
LockExistsError(c) == raised[c] = Exc("Lock file already exists", <<env_file(c)>>)
C3_LockAtCheckIsFatal ==
    /\ [][\A c \in Procs :
            (pc[c] = "exists" /\ exists(env_file(c)) /\ pc'[c] # "exists")
                => (pc'[c] = "raised" /\ LockExistsError(c)')]_vars
    /\ [](\A c \in Procs :
            raised[c].msg = "Lock file already exists" =>
                /\ pc[c] = "raised"
                /\ ~atexit[c]
                /\ fd[c] = 0
                /\ \A i \in DOMAIN inodes : inodes[i].writer # c
                /\ "SCCL_XML_FILE" \notin DOMAIN environ[c]
                /\ environ[c]["CUDA_VISIBLE_DEVICES"] = Preset["CUDA_VISIBLE_DEVICES"])
C3_Witness ==
    \E c \in Procs : Coordinator(c) /\ LockExistsError(c) /\ env[c] # None

\* ------------------------------------------------------------------------
\* C4: a lock file whose contents a coordinator of this run wrote exists only
\* while that coordinator has published and has not exited, and the normal
\* exit of a coordinator that registered the cleanup leaves the file absent.
\* ------------------------------------------------------------------------
C4_LockOnlyDuringCoordinatorRun ==
    /\ [](\A k \in Parents :
            (exists(k) /\ inodes[lock[k]].writer # 0) =>
                LET c == inodes[lock[k]].writer
                IN  Published(c) /\ pc[c] # "exited" /\ env_file(c) = k)
    /\ [][\A c \in Procs :
            (pc[c] = "done" /\ pc'[c] = "exited" /\ atexit[c]) => ~exists(env_file(c))']_vars
C4_Witness ==
    \E c \in Procs : Published(c) /\ pc[c] = "exited" /\ atexit[c] /\ ~exists(env_file(c))

\* ------------------------------------------------------------------------
\* C5: of the processes that resolve to one lock-file path at most one ever
\* writes the file; subprocesses never write it, and of two coordinators
\* that run the test and the write concurrently one ends in the
\* 'Lock file already exists' error.
\* ------------------------------------------------------------------------
C5_AtMostOneWriter ==
    /\ \A s \in Procs : Sibling(s) => \A i \in DOMAIN inodes : inodes[i].writer # s
    /\ \A c \in Procs : \A d \in Procs :
          (c # d /\ SameGroup(c, d) /\ Published(c)) => ~Published(d)

\* ------------------------------------------------------------------------
\* C6 as claimed, for the processes the runtime broadcast reaches: any two MPI
\* processes of different launchers that completed init hold equal
\* SCCL_XML_FILE and equal CUDA_VISIBLE_DEVICES values.
\* ------------------------------------------------------------------------
C6_AllInstalledValuesEqual ==
    \A p \in Procs : \A q \in Procs :
        (Installed(p) /\ Installed(q) /\ Coordinator(p) /\ Coordinator(q) /\ ~SameGroup(p, q))
            => SameValues(p, q)

\* C6 as amended: a process that completed init holds the values of its own
\* bundle.  A subprocess's bundle is the one it parsed from the lock file:
\* that of a coordinator of its group that published it, or the one an
\* earlier run left there.  The MPI processes all hold the algorithm rank 0
\* broadcast, each written to a file in a directory of its own: the files'
\* contents are equal and the SCCL_XML_FILE values of two MPI processes differ.
StaleBundle == json_load(StaleText).doc
HasBundle(p) == pc[p] \in {"exists", "open_w", "dump", "register", "update", "done", "exited"}
                /\ launch[p].is_mpi_process
C6_InstalledBundles ==
    /\ \A p \in Procs : Installed(p) => \A k \in BundleKeys : environ[p][k] = env[p][k]
    /\ \A s \in Procs :
          Parsed(s) => \/ env[s] = StaleBundle
                       \/ \E c \in Procs : SameGroup(c, s) /\ Published(c) /\ env[s] = env[c]
    /\ \A p \in Procs : \A q \in Procs :
          (p # q /\ HasBundle(p) /\ HasBundle(q)) =>
              /\ efs[p] = efs[q]
              /\ ef_files[env[p]["SCCL_XML_FILE"][1]] = ef_files[env[q]["SCCL_XML_FILE"][1]]
              /\ env[p]["SCCL_XML_FILE"] # env[q]["SCCL_XML_FILE"]
C6_Witness ==
    \E p \in Procs : \E q \in Procs : \E s \in Procs :
        /\ p # q /\ Coordinator(p) /\ Coordinator(q) /\ Installed(p) /\ Installed(q)
        /\ Sibling(s) /\ Installed(s) /\ SameValues(s, p) /\ ~SameValues(p, q)

\* ------------------------------------------------------------------------
\* C7: when the names the ranks detected are all equal the consistency check
\* passes; when two of them differ the run aborts with the error of rank 0
\* that names the first pair of ranks that disagree and their two names, and
\* nothing is synthesized.
\* ------------------------------------------------------------------------
AllDetected == \A q \in COMM_WORLD : tool[q] # ""
DetectedNames == [i \in 1..Get_size |-> machine[ProcOfRank(i - 1)][1]]
HeterogeneityError(ns) ==
    LET i == CHOOSE j \in 0..(Len(ns) - 2) :
                 /\ ns[j + 1] # ns[j + 2]
                 /\ \A k \in 0..(j - 1) : ns[k + 1] = ns[k + 2]
    IN  Exc("detected machine as", <<i, ns[i + 1], i + 1, ns[i + 2]>>)
C7_ConsistencyCheck ==
    AllDetected =>
        IF \A i \in 1..Get_size : \A j \in 1..Get_size : DetectedNames[i] = DetectedNames[j]
        THEN \A q \in COMM_WORLD : raised[q].msg # "detected machine as"
        ELSE /\ \A q \in COMM_WORLD :
                   pc[q] = "raised" =>
                       (Get_rank(q) = 0 /\ raised[q] = HeterogeneityError(DetectedNames))
             /\ \A q \in COMM_WORLD : synth_calls[q] = 0

\* ------------------------------------------------------------------------
\* C8: launch detection returns, first match winning: with LOCAL_RANK in the
\* environment, subprocesses, WORLD_SIZE, coordinator iff LOCAL_RANK is 0;
\* else with a --local_rank N argument the same, coordinator iff N is 0; else
\* no subprocesses, coordinator, world size unresolved (later the size of
\* COMM_WORLD).
\* ------------------------------------------------------------------------
WellFormedArgs(args) == ~scan_local_rank(args).exit
LaunchContract(e, args) ==
    IF "LOCAL_RANK" \in DOMAIN e
    THEN Context(TRUE, Some(IntOfStr[e["WORLD_SIZE"]]), e["LOCAL_RANK"] = "0")
    ELSE IF scan_local_rank(args).local_rank.some
    THEN Context(TRUE, Some(IntOfStr[e["WORLD_SIZE"]]), scan_local_rank(args).local_rank.val = 0)
    ELSE Context(FALSE, None, TRUE)
C8_LaunchContext ==
    \A p \in Procs :
        (pc[p] # "init" /\ WellFormedArgs(argv[p])) =>
            /\ launch[p] = LaunchContract(environ[p], argv[p])
            /\ ~launch[p].world_size.some => resolved_world_size(p) = Get_size

\* ------------------------------------------------------------------------
\* C9 as claimed: a report that nvidia-smi delivered is classified as
\* 'one_host_ib_dgx1' exactly when it has 8 GPUs and exactly one line that
\* matches the host-local NIC pattern, and as 'unknown' otherwise.
\* ------------------------------------------------------------------------
Units(r) == Cardinality({i \in DOMAIN r.text : r.text[i][1] = "GPU"})
Qualifying(r) == Cardinality({i \in DOMAIN r.text : match_ib_host(r.text[i])})
NicRows(r) == Cardinality({i \in DOMAIN r.text : r.text[i][1] = "mlx"})
C9_ExactlyOneQualifyingLine ==
    (detected.stage >= 1 /\ report.status = "ok") =>
        /\ detected.machine[1] = "one_host_ib_dgx1"
              <=> (Units(report) = 8 /\ Qualifying(report) = 1)
        /\ detected.machine[1] \in {"one_host_ib_dgx1", "unknown"}

\* C9 as amended: ... exactly when it has 8 GPUs, exactly one line that
\* matches the host-local NIC pattern and no other NIC line (exactly one line
\* that starts with a NIC name); every other report is classified as
\* ('unknown', None).
C9_OneQualifyingLineAndNoOtherNic ==
    (detected.stage >= 1 /\ report.status = "ok") =>
        IF Units(report) = 8 /\ Qualifying(report) = 1 /\ NicRows(report) = 1
        THEN detected.machine[1] = "one_host_ib_dgx1"
        ELSE detected.machine = Unknown
C9_Witness ==
    /\ detected.stage >= 1 /\ report.status = "ok"
    /\ Units(report) = 8 /\ Qualifying(report) = 1 /\ NicRows(report) = 2
    /\ detected.machine = Unknown

\* ------------------------------------------------------------------------
\* C10: when nvidia-smi is missing or fails, detect_machine returns
\* ('unknown', None) and raises nothing; a process whose machine is not the
\* registered one ends in 'Unhandled machine type' at plan selection: it sends
\* no name, synthesizes nothing, produces no bundle and writes no lock file.
\* ------------------------------------------------------------------------
C10_UnknownFatalAtSelection ==
    \A p \in Procs :
        tool[p] # "" =>
            /\ tool[p] \in {"FileNotFoundError", "CalledProcessError"} => machine[p] = Unknown
            /\ machine[p][1] # "one_host_ib_dgx1" =>
                  /\ pc[p] = "raised"
                  /\ raised[p] = Exc("Unhandled machine type", <<machine[p][1]>>)
                  /\ ~names[p].some /\ ~efs[p].some /\ synth_calls[p] = 0
                  /\ env[p] = None /\ ~atexit[p]
                  /\ \A i \in DOMAIN inodes : inodes[i].writer # p
C10_Witness ==
    \E p \in Procs : \E q \in Procs :
        /\ tool[p] = "FileNotFoundError" /\ tool[q] = "CalledProcessError"
        /\ raised[p].msg = "Unhandled machine type" /\ raised[q].msg = "Unhandled machine type"

\* ------------------------------------------------------------------------
\* C11: plan.synthesize is called by rank 0 only, at most once in a run, and
\* only after the names of all ranks of COMM_WORLD were gathered and found
\* pairwise equal; the root compares only a complete list.
\* ------------------------------------------------------------------------
AllGathered == \A q \in COMM_WORLD : names[q].some
C11_SynthesisOnlyAtRootAfterCheck ==
    /\ \A p \in Procs :
          pc[p] = "check" => (Get_rank(p) = 0 /\ AllGathered)
    /\ \A p \in Procs :
          synth_calls[p] > 0 =>
              /\ p \in COMM_WORLD /\ Get_rank(p) = 0
              /\ synth_calls[p] = 1
              /\ AllGathered
              /\ \A q \in COMM_WORLD : \A r \in COMM_WORLD : names[q].val = names[r].val
              /\ \A q \in Procs \ {p} : synth_calls[q] = 0
C11_Witness ==
    \E p \in Procs : \E q \in Procs :
        /\ p # q /\ q \in COMM_WORLD /\ Get_rank(p) = 0
        /\ synth_calls[p] = 1 /\ pc[q] \in {"bcast", "write_ef"}

\* ------------------------------------------------------------------------
\* C12: the broadcast blocks: a rank of COMM_WORLD other than rank 0 gets
\* past comm.bcast, and so can complete init, only after rank 0 has compared
\* the names, synthesized and broadcast; when rank 0 ended in an exception
\* before its broadcast no other rank ever installs a bundle.
\* ------------------------------------------------------------------------
PastBcast(p) == pc[p] \in {"write_ef", "exists", "open_w", "dump", "register", "update",
                           "done", "exited"}
                \/ (pc[p] = "raised" /\ raised[p].msg = "Lock file already exists")
C13_SiblingNeverFails ==
    \A s \in Procs : Sibling(s) => raised[s] = NoExc

\* ------------------------------------------------------------------------
\* C14: a process started with neither LOCAL_RANK nor a --local_rank argument
\* does no file coordination: no step of it changes the lock files, their
\* contents, its file handle or its exit handlers, and it never stands at one
\* of the file operations of lines 45-63, whether or not a lock file is there.
\* ------------------------------------------------------------------------
Bare(p) ==
    /\ "LOCAL_RANK" \notin DOMAIN environ[p]
    /\ ~scan_local_rank(argv[p]).local_rank.some
    /\ WellFormedArgs(argv[p])
FileLabels == {"exists", "open_w", "dump", "register", "poll", "open_r", "load"}
C15_DetectionNeverFails ==
    \A p \in Procs :
        pc[p] # "init" =>
            /\ launch[p].raised = ""
            /\ ("LOCAL_RANK" \notin DOMAIN environ[p] /\ ~scan_local_rank(argv[p]).local_rank.some)
                   => launch[p] = Context(FALSE, None, TRUE)

\* ------------------------------------------------------------------------
\* C16 as claimed: only a process without subprocesses (the bare MPI launch)
\* takes part in the gather of the machine names; the coordinator of a
\* launcher's group does not.
\* ------------------------------------------------------------------------
C16_GatherOnlyInBareTier ==
    \A p \in Procs : names[p].some => ~launch[p].has_subprocesses

\* C16, amended: every process that is an MPI process takes part in the
\* gather, the coordinator of a launcher's group included: once past line 87
\* it has handed in its name, and where it is the root it synthesizes only
\* with the names of all ranks in hand. A process that is not an MPI process
\* (a sibling) never hands in a name.
PastGather(p) == pc[p] \in {"check", "bcast"} \/ PastBcast(p)
C16_EveryMpiProcessGathers ==
    \A p \in Procs :
        /\ names[p].some => (Started(p) /\ launch[p].is_mpi_process)
        /\ (Started(p) /\ launch[p].is_mpi_process /\ PastGather(p)) => names[p].some
        /\ (Coordinator(p) /\ synth_calls[p] > 0) => AllGathered
C16_Witness ==
    \E p \in Procs :
        /\ Coordinator(p) /\ launch[p].has_subprocesses
        /\ names[p].some /\ synth_calls[p] = 1 /\ Get_size > 1

\* ------------------------------------------------------------------------
\* C17: the step of line 65 gives every key of the bundle the bundle's value,
\* whatever the environment held under that name, and leaves every other
\* variable as it was; no other step of init changes the environment; and
\* the bundle an MPI process built has exactly the keys SCCL_XML_FILE and
\* CUDA_VISIBLE_DEVICES.
\* ------------------------------------------------------------------------
C17_MergeSemantics ==
    [][\A p \in Procs :
          IF pc[p] = "update" /\ pc'[p] # "update"
          THEN /\ launch[p].is_mpi_process => DOMAIN env[p] = BundleKeys
               /\ DOMAIN environ'[p] = (DOMAIN environ[p]) \cup (DOMAIN env[p])
               /\ \A k \in DOMAIN env[p] : environ'[p][k] = env[p][k]
               /\ \A k \in (DOMAIN environ[p]) \ (DOMAIN env[p]) :
                      environ'[p][k] = environ[p][k]
          ELSE environ'[p] = environ[p]]_vars
C17_Witness ==
    \E p \in Procs :
        /\ Installed(p) /\ launch[p].is_mpi_process
        /\ environ[p]["CUDA_VISIBLE_DEVICES"] = env[p]["CUDA_VISIBLE_DEVICES"]
        /\ environ[p]["CUDA_VISIBLE_DEVICES"] # Preset["CUDA_VISIBLE_DEVICES"]
        /\ environ[p]["PATH"] = Preset["PATH"]
        /\ environ[p]["LOCAL_RANK"] = "0"

\* ------------------------------------------------------------------------
\* C18: a process that is not the MPI process waits without a time limit:
\* it leaves the loop of lines 56-60 only by seeing the lock file, and then
\* goes on to open it; while it has not seen the file it has neither failed
\* nor installed anything, however many intervals have elapsed; and the
\* warning of line 60 is printed once, when the tenth interval has elapsed.
\* ------------------------------------------------------------------------
C18_SiblingWaitsWithoutTimeout ==
    [][\A s \in Procs :
          /\ (pc[s] = "poll" /\ pc'[s] # "poll") =>
                 /\ exists(env_file(s))
                 /\ pc'[s] = "open_r"
                 /\ raised'[s] = NoExc
          /\ pc'[s] = "poll" =>
                 /\ raised'[s] = NoExc
                 /\ environ'[s] = environ[s]
                 /\ ~env'[s].some
          /\ warnings'[s] = (IF elapsed'[s] >= WarnAfter THEN 1 ELSE 0)
          /\ elapsed'[s] >= elapsed[s]]_vars
C18_Witness ==
    \E s \in Procs :
        /\ Sibling(s) /\ pc[s] = "poll" /\ ~exists(env_file(s))
        /\ elapsed[s] > WarnAfter /\ warnings[s] = 1

\* ------------------------------------------------------------------------
\* C19: the step in which a coordinator raises 'Lock file already exists'
\* changes nothing but that process's own position: the lock file is still
\* there with the text it had, no removal is registered and the environment
\* is as before; and the process that failed so does nothing afterwards, so
\* it never removes the file and its environment stays the one it was
\* started with.
\* ------------------------------------------------------------------------
C19_LockExistsErrorChangesNothing ==
    [][\A c \in Procs :
          /\ (pc[c] = "exists" /\ pc'[c] = "raised") =>
                 /\ LockExistsError(c)'
                 /\ UNCHANGED <<lock, inodes, atexit, fd, environ, env>>
                 /\ lock'[env_file(c)] # 0
                 /\ inodes'[lock'[env_file(c)]].text = inodes[lock[env_file(c)]].text
          /\ LockExistsError(c) =>
                 /\ pc'[c] = "raised"
                 /\ atexit'[c] = FALSE
                 /\ environ'[c] \in {l.environ : l \in Launches}]_vars
C19_Witness ==
    \E c \in Procs :
        /\ LockExistsError(c) /\ existed[c]
        /\ exists(env_file(c))
        /\ inodes[lock[env_file(c)]] = [text |-> StaleText, writer |-> 0]
        /\ environ[c] \in {l.environ : l \in Launches}

====
